---- MODULE Spec2Model ----
(***************************************************************************)
(* AI Model Battle Arena (src/app.py): the option lists built from the     *)
(* evaluation records, the record matcher, the correctness fallback and    *)
(* the page flow of main().                                                *)
(*                                                                         *)
(* Python values are tagged records; a Python str is a sequence of         *)
(* one-character strings, so that startswith, split, int(), float(),       *)
(* strip() and string comparison are computed character by character.      *)
(***************************************************************************)
EXTENDS Integers, Sequences, FiniteSets, TLC

VARIABLES
  file,         \* final_results.json on disk: "missing", "malformed" or a document
  data,         \* what load_data() returned to the last run of main (None before)
  model_names,  \* option lists built by the last run of main
  datasets,
  problem_ids,
  model1,       \* the selection the last run of main read from the four widgets
  model2,
  dataset,
  problem_id,
  record1,      \* what filter_records returned to the last run (references)
  record2,
  is_correct1,  \* the verdict render_normal_view displayed for each side
  is_correct2,
  out,          \* the st.error / st.warning / view output of the last run, in order
  ran,          \* the functions the last run of main invoked
  prev,         \* how the run before the last one ended
  args,         \* arguments of a function called on its own
  ret           \* and what it returned

vars == <<file, data, model_names, datasets, problem_ids, model1, model2, dataset,
          problem_id, record1, record2, is_correct1, is_correct2, out, ran, prev,
          args, ret>>

sessionVars == <<file, data, model_names, datasets, problem_ids, model1, model2,
                 dataset, problem_id, record1, record2, is_correct1, is_correct2,
                 out, ran, prev>>

----------------------------------------------------------------------------
(* Bounds *)

\* longest detailed_results list of a document
MaxRecords == 3
\* longest list of model names handed to get_model_names on its own
MaxNames == 4

----------------------------------------------------------------------------
(* Python values *)

None == [t |-> "None"]
PyStr(s) == [t |-> "str", s |-> s]
PyInt(n) == [t |-> "int", n |-> n]
PyBool(b) == [t |-> "bool", b |-> b]
\* a float with a finite decimal expansion: m / 10^e, with no trailing zero kept
PyFloat(m, e) == [t |-> "float", f |-> <<m, e>>]
\* the top-level mapping of a JSON document
PyDict(d) == [t |-> "dict", d |-> d]
\* a reference to the i-th dict of detailed_results (the object, not a copy)
Ref(i) == [t |-> "ref", i |-> i]
\* an exception propagating out of a call
Raise(kind) == [t |-> "raise", e |-> kind]

IsNone(x) == x.t = "None"
IsRaise(x) == x.t = "raise"

\* dict.get(key, default) and key in dict
HasKey(d, key) == key \in DOMAIN d
Get(d, key, default) == IF key \in DOMAIN d THEN d[key] ELSE default

\* bool(x) for the values the page tests for truth
Truthy(x) ==
  CASE x.t = "None" -> FALSE
    [] x.t = "str" -> x.s # <<>>
    [] x.t = "int" -> x.n # 0
    [] x.t = "bool" -> x.b
    [] OTHER -> TRUE

----------------------------------------------------------------------------
(* Python str operations *)

\* the characters in use, in code point order
AsciiOrder ==
  <<" ", "+", "-", ".", "0", "1", "2", "3", "4", "5", "6", "7", "8", "9",
    "F", "N", "_", "a", "b", "c", "d", "e", "f", "g", "h", "i", "k", "l", "m",
    "n", "o", "p", "r", "s", "t", "u", "v", "y", "z">>

Ord(c) == CHOOSE i \in DOMAIN AsciiOrder : AsciiOrder[i] = c

Digits == <<"0", "1", "2", "3", "4", "5", "6", "7", "8", "9">>
IsDigit(c) == \E i \in DOMAIN Digits : Digits[i] = c
DigitValue(c) == (CHOOSE i \in DOMAIN Digits : Digits[i] = c) - 1
IsSpace(c) == c = " "

\* s < t for two str: the first differing character decides, a proper prefix is less
RECURSIVE StrLess(_, _)
StrLess(s, t) ==
  IF t = <<>> THEN FALSE
  ELSE IF s = <<>> THEN TRUE
  ELSE IF Head(s) = Head(t) THEN StrLess(Tail(s), Tail(t))
  ELSE Ord(Head(s)) < Ord(Head(t))

\* s.startswith(p)
StartsWith(s, p) == Len(s) >= Len(p) /\ SubSeq(s, 1, Len(p)) = p

\* s.split(sep) for a one-character sep: the fields between the separators
RECURSIVE SplitFrom(_, _, _)
SplitFrom(s, sep, cur) ==
  IF s = <<>> THEN <<cur>>
  ELSE IF Head(s) = sep THEN <<cur>> \o SplitFrom(Tail(s), sep, <<>>)
  ELSE SplitFrom(Tail(s), sep, Append(cur, Head(s)))

Split(s, sep) == SplitFrom(s, sep, <<>>)

\* s.strip(): leading and trailing whitespace removed
RECURSIVE LStrip(_)
LStrip(s) == IF s # <<>> /\ IsSpace(Head(s)) THEN LStrip(Tail(s)) ELSE s

RECURSIVE RStrip(_)
RStrip(s) ==
  IF s # <<>> /\ IsSpace(s[Len(s)]) THEN RStrip(SubSeq(s, 1, Len(s) - 1)) ELSE s

Strip(s) == RStrip(LStrip(s))

AllDigits(s) == s # <<>> /\ \A i \in DOMAIN s : IsDigit(s[i])

RECURSIVE DigitsValue(_)
DigitsValue(s) ==
  IF s = <<>> THEN 0
  ELSE 10 * DigitsValue(SubSeq(s, 1, Len(s) - 1)) + DigitValue(s[Len(s)])

HasSign(s) == s # <<>> /\ Head(s) \in {"+", "-"}
Unsigned(s) == IF HasSign(s) THEN Tail(s) ELSE s
Sign(s) == IF s # <<>> /\ Head(s) = "-" THEN -1 ELSE 1

\* int(s) for a str: surrounding whitespace, an optional sign, decimal digits;
\* anything else raises ValueError
IntOfStr(s) ==
  LET body == Strip(s) IN
  IF AllDigits(Unsigned(body))
  THEN PyInt(Sign(body) * DigitsValue(Unsigned(body)))
  ELSE Raise("ValueError")

RECURSIVE Pow10(_)
Pow10(n) == IF n = 0 THEN 1 ELSE 10 * Pow10(n - 1)

\* m / 10^e without trailing zeros in the fraction: equal numbers, equal pairs
RECURSIVE Normal(_, _)
Normal(m, e) == IF e > 0 /\ m % 10 = 0 THEN Normal(m \div 10, e - 1) ELSE <<m, e>>

\* the digits of n >= 0
RECURSIVE NatToStr(_)
NatToStr(n) ==
  IF n < 10 THEN <<Digits[n + 1]>>
  ELSE Append(NatToStr(n \div 10), Digits[(n % 10) + 1])

IntToStr(n) == IF n < 0 THEN <<"-">> \o NatToStr(-n) ELSE NatToStr(n)

\* n >= 0 in exactly w digits (leading zeros)
RECURSIVE Padded(_, _)
Padded(n, w) == IF w = 0 THEN <<>> ELSE Append(Padded(n \div 10, w - 1), Digits[(n % 10) + 1])

\* str(x)
StrOf(x) ==
  CASE x.t = "str" -> x.s
    [] x.t = "int" -> IntToStr(x.n)
    [] x.t = "float" ->
         (IF x.f[1] < 0 THEN <<"-">> ELSE <<>>)
           \o NatToStr((IF x.f[1] < 0 THEN -x.f[1] ELSE x.f[1]) \div Pow10(x.f[2]))
           \o <<".">>
           \o (IF x.f[2] = 0 THEN <<"0">>
               ELSE Padded((IF x.f[1] < 0 THEN -x.f[1] ELSE x.f[1]) % Pow10(x.f[2]), x.f[2]))
    [] x.t = "bool" -> IF x.b THEN <<"T", "r", "u", "e">> ELSE <<"F", "a", "l", "s", "e">>
    [] OTHER -> <<"N", "o", "n", "e">>

\* where the decimal point of s is (0: none)
PointAt(s) == IF \E i \in DOMAIN s : s[i] = "." THEN CHOOSE i \in DOMAIN s : s[i] = "." ELSE 0

\* float(s) for a str: surrounding whitespace, an optional sign, then digits with at
\* most one decimal point and at least one digit; anything else raises ValueError.
\* (Exponents, inf, nan and digit-group underscores are not in the strings in use.)
FloatOfStr(s) ==
  LET body == Unsigned(Strip(s))
      p == PointAt(body)
      whole == IF p = 0 THEN body ELSE SubSeq(body, 1, p - 1)
      frac == IF p = 0 THEN <<>> ELSE SubSeq(body, p + 1, Len(body))
      ok == /\ whole \o frac # <<>>
            /\ \A i \in DOMAIN whole : IsDigit(whole[i])
            /\ \A i \in DOMAIN frac : IsDigit(frac[i])
      n == Normal(Sign(Strip(s)) * DigitsValue(whole \o frac), Len(frac))
  IN IF ok THEN PyFloat(n[1], n[2]) ELSE Raise("ValueError")

\* float(x)
FloatOf(x) ==
  CASE x.t = "str" -> FloatOfStr(x.s)
    [] x.t = "int" -> PyFloat(x.n, 0)
    [] x.t = "float" -> x
    [] x.t = "bool" -> PyFloat(IF x.b THEN 1 ELSE 0, 0)
    [] OTHER -> Raise("TypeError")

----------------------------------------------------------------------------
(* calculate_is_correct *)

\* calculate_is_correct without the numeric comparison
calculate_is_correct_as_text(predicted_answer, true_answer) ==
  PyBool(Strip(StrOf(predicted_answer)) = Strip(StrOf(true_answer)))

\* float(predicted_answer) == float(true_answer); on ValueError or TypeError from
\* either conversion, str(predicted_answer).strip() == str(true_answer).strip()
calculate_is_correct(predicted_answer, true_answer) ==
  LET p == FloatOf(predicted_answer)
      t == FloatOf(true_answer)
  IN IF ~IsRaise(p) /\ ~IsRaise(t)
     THEN PyBool(p.f = t.f)
     ELSE PyBool(Strip(StrOf(predicted_answer)) = Strip(StrOf(true_answer)))

----------------------------------------------------------------------------
(* The option lists *)

\* data.get('detailed_results', [])
detailed_results(d) == Get(d.d, "detailed_results", <<>>)

\* a < b for two int or two str
PyLess(a, b) == IF a.t = "int" THEN a.n < b.n ELSE StrLess(a.s, b.s)

\* a < b for two (tier, key) tuples: the tier decides, then the key
TupleLess(a, b) == a[1] < b[1] \/ (a[1] = b[1] /\ PyLess(a[2], b[2]))

base_model == <<"b", "a", "s", "e", "_", "m", "o", "d", "e", "l">>
checkpoint_ == <<"c", "h", "e", "c", "k", "p", "o", "i", "n", "t", "_">>

\* sort_key with checkpoints keyed by their name instead of their number
sort_key_by_name(model_name) ==
  IF model_name.s = base_model THEN <<0, PyInt(0)>>
  ELSE IF StartsWith(model_name.s, checkpoint_)
  THEN LET fields == Split(model_name.s, "_")
           number == IF Len(fields) < 2 THEN Raise("IndexError") ELSE IntOfStr(fields[2])
       IN IF IsRaise(number) THEN <<2, model_name>> ELSE <<1, model_name>>
  ELSE <<2, model_name>>

\* sort_key whose fallback keeps the name among the checkpoints, as number 0
sort_key_fallback_zero(model_name) ==
  IF model_name.s = base_model THEN <<0, PyInt(0)>>
  ELSE IF StartsWith(model_name.s, checkpoint_)
  THEN LET fields == Split(model_name.s, "_")
           number == IF Len(fields) < 2 THEN Raise("IndexError") ELSE IntOfStr(fields[2])
       IN IF IsRaise(number) THEN <<1, PyInt(0)>> ELSE <<1, number>>
  ELSE <<2, model_name>>

\* get_model_names.sort_key
sort_key(model_name) ==
  IF model_name.s = base_model THEN <<0, PyInt(0)>>
  ELSE IF StartsWith(model_name.s, checkpoint_)
  THEN LET fields == Split(model_name.s, "_")
           number == IF Len(fields) < 2 THEN Raise("IndexError") ELSE IntOfStr(fields[2])
       IN IF IsRaise(number) THEN <<2, model_name>> ELSE <<1, number>>
  ELSE <<2, model_name>>

\* the key of a plain sorted(): the value itself
natural_key(x) == <<0, x>>

\* sorted(list(S), key=...): every list of the elements of the set S in ascending
\* order of key[x]. The sort is stable and the list of a set comes in no fixed order,
\* so elements with equal keys may come out either way round.
RECURSIVE sorted(_, _)
sorted(S, key) ==
  IF S = {} THEN {<<>>}
  ELSE UNION {{<<m>> \o rest : rest \in sorted(S \ {m}, key)} :
                m \in {x \in S : \A y \in S : ~TupleLess(key[y], key[x])}}

FieldValues(d, key) == {detailed_results(d)[i][key] : i \in DOMAIN detailed_results(d)}

get_model_names(d) ==
  sorted(FieldValues(d, "model_name"), [x \in FieldValues(d, "model_name") |-> sort_key(x)])

get_datasets(d) ==
  sorted(FieldValues(d, "dataset"), [x \in FieldValues(d, "dataset") |-> natural_key(x)])

get_problem_ids(d) ==
  sorted(FieldValues(d, "problem_id"), [x \in FieldValues(d, "problem_id") |-> natural_key(x)])


----------------------------------------------------------------------------
(* filter_records *)

\* the loop over records[i..]: every record that matches model1's key is bound to
\* record1, else one that matches model2's key is bound to record2
RECURSIVE filter_loop(_, _, _, _, _, _, _, _)
filter_loop(records, i, r1, r2, m1, m2, ds, pid) ==
  IF i > Len(records) THEN <<r1, r2>>
  ELSE LET record == records[i] IN
       IF record["model_name"] = m1 /\ record["dataset"] = ds /\ record["problem_id"] = pid
       THEN filter_loop(records, i + 1, Ref(i), r2, m1, m2, ds, pid)
       ELSE IF record["model_name"] = m2 /\ record["dataset"] = ds
               /\ record["problem_id"] = pid
       THEN filter_loop(records, i + 1, r1, Ref(i), m1, m2, ds, pid)
       ELSE filter_loop(records, i + 1, r1, r2, m1, m2, ds, pid)

\* filter_records that binds a side only while it is not yet set
RECURSIVE filter_loop_first(_, _, _, _, _, _, _, _)
filter_loop_first(records, i, r1, r2, m1, m2, ds, pid) ==
  IF i > Len(records) THEN <<r1, r2>>
  ELSE LET record == records[i] IN
       IF record["model_name"] = m1 /\ record["dataset"] = ds /\ record["problem_id"] = pid
          /\ IsNone(r1)
       THEN filter_loop_first(records, i + 1, Ref(i), r2, m1, m2, ds, pid)
       ELSE IF record["model_name"] = m2 /\ record["dataset"] = ds
               /\ record["problem_id"] = pid /\ IsNone(r2)
       THEN filter_loop_first(records, i + 1, r1, Ref(i), m1, m2, ds, pid)
       ELSE filter_loop_first(records, i + 1, r1, r2, m1, m2, ds, pid)

filter_records_first(d, m1, m2, ds, pid) ==
  filter_loop_first(detailed_results(d), 1, None, None, m1, m2, ds, pid)

\* filter_records that does not compare the dataset
RECURSIVE filter_loop_any_dataset(_, _, _, _, _, _, _, _)
filter_loop_any_dataset(records, i, r1, r2, m1, m2, ds, pid) ==
  IF i > Len(records) THEN <<r1, r2>>
  ELSE LET record == records[i] IN
       IF record["model_name"] = m1 /\ record["problem_id"] = pid
       THEN filter_loop_any_dataset(records, i + 1, Ref(i), r2, m1, m2, ds, pid)
       ELSE IF record["model_name"] = m2 /\ record["problem_id"] = pid
       THEN filter_loop_any_dataset(records, i + 1, r1, Ref(i), m1, m2, ds, pid)
       ELSE filter_loop_any_dataset(records, i + 1, r1, r2, m1, m2, ds, pid)

filter_records_any_dataset(d, m1, m2, ds, pid) ==
  filter_loop_any_dataset(detailed_results(d), 1, None, None, m1, m2, ds, pid)

filter_records(d, m1, m2, ds, pid) ==
  filter_loop(detailed_results(d), 1, None, None, m1, m2, ds, pid)

\* the dict a reference points to
Deref(d, r) == detailed_results(d)[r.i]

----------------------------------------------------------------------------
(* render_normal_view and render_elyza_view *)

\* a column that recomputes the verdict whenever the record has both answers
column_is_correct_recomputed(record) ==
  IF HasKey(record, "predicted_answer") /\ HasKey(record, "true_answer")
  THEN calculate_is_correct(record["predicted_answer"], record["true_answer"])
  ELSE Get(record, "is_correct", PyBool(FALSE))

\* one column of render_normal_view: the stored is_correct if it is not None, else
\* calculate_is_correct of the record's two answers; record[...] of a missing key
\* raises KeyError before the call is made
column_is_correct(record) ==
  LET stored == Get(record, "is_correct", None) IN
  IF ~IsNone(stored) THEN stored
  ELSE IF ~HasKey(record, "predicted_answer") \/ ~HasKey(record, "true_answer")
  THEN Raise("KeyError")
  ELSE calculate_is_correct(record["predicted_answer"], record["true_answer"])

\* a column that stores a derived verdict back into the record
column_record_stored(record) ==
  IF IsNone(Get(record, "is_correct", None))
     /\ HasKey(record, "predicted_answer") /\ HasKey(record, "true_answer")
  THEN [k \in DOMAIN record \cup {"is_correct"} |->
          IF k = "is_correct"
          THEN calculate_is_correct(record["predicted_answer"], record["true_answer"])
          ELSE record[k]]
  ELSE record

\* the record as that column leaves it: the verdict is bound to the local
\* is_correct1 / is_correct2 and no item of the dict is assigned
column_record(record) == record

\* whether that column called calculate_is_correct
column_calculates(record) ==
  /\ IsNone(Get(record, "is_correct", None))
  /\ HasKey(record, "predicted_answer")
  /\ HasKey(record, "true_answer")

\* st.success or st.error for a verdict
badge(side, verdict) == IF Truthy(verdict) THEN <<"correct", side>> ELSE <<"incorrect", side>>

\* render_normal_view: what it shows, the two verdicts and the calls it makes. An
\* exception in column 1 ends the run before column 2 is drawn.
render_normal_view(rec1, rec2) ==
  LET v1 == column_is_correct(rec1)
      v2 == column_is_correct(rec2)
  IN IF IsRaise(v1)
     THEN [out |-> <<<<"normal_view", 0>>, <<v1.e, 1>>>>,
           is_correct1 |-> None, is_correct2 |-> None,
           record1 |-> rec1, record2 |-> rec2,
           ran |-> {"render_normal_view"}]
     ELSE IF IsRaise(v2)
     THEN [out |-> <<<<"normal_view", 0>>, badge(1, v1), <<v2.e, 2>>>>,
           is_correct1 |-> v1, is_correct2 |-> None,
           record1 |-> column_record(rec1), record2 |-> rec2,
           ran |-> {"render_normal_view"}
                     \cup (IF column_calculates(rec1) THEN {"calculate_is_correct_1"} ELSE {})]
     ELSE [out |-> <<<<"normal_view", 0>>, badge(1, v1), badge(2, v2)>>,
           is_correct1 |-> v1, is_correct2 |-> v2,
           record1 |-> column_record(rec1), record2 |-> column_record(rec2),
           ran |-> {"render_normal_view"}
                     \cup (IF column_calculates(rec1) THEN {"calculate_is_correct_1"} ELSE {})
                     \cup (IF column_calculates(rec2) THEN {"calculate_is_correct_2"} ELSE {})]

\* render_elyza_view: the scores (0 when absent), no verdict
render_elyza_view(rec1, rec2) ==
  [out |-> <<<<"elyza_view", 0>>,
             <<"score", Get(rec1, "gpt4_score", PyInt(0)).n>>,
             <<"score", Get(rec2, "gpt4_score", PyInt(0)).n>>>>,
   is_correct1 |-> None, is_correct2 |-> None,
   record1 |-> rec1, record2 |-> rec2,
   ran |-> {"render_elyza_view"}]


----------------------------------------------------------------------------
(* The documents final_results.json may hold *)

gsm8k == <<"g", "s", "m", "8", "k">>
elyza == <<"e", "l", "y", "z", "a">>
checkpoint_200 == checkpoint_ \o <<"2", "0", "0">>

\* "42", "43" and "42.0"
s42 == <<"4", "2">>
s43 == <<"4", "3">>
s42_0 == <<"4", "2", ".", "0">>

\* the records documents are made of: two stored verdicts for one key, each
\* disagreeing with its answers; two records of another model for that key without
\* is_correct, one with answers and one without predicted_answer; a record whose
\* is_correct and answers are null; and two elyza records
RecordPool ==
  { [model_name |-> PyStr(base_model), dataset |-> PyStr(gsm8k), problem_id |-> PyInt(0),
     predicted_answer |-> PyStr(s42), true_answer |-> PyStr(s43),
     is_correct |-> PyBool(TRUE)],
    [model_name |-> PyStr(base_model), dataset |-> PyStr(gsm8k), problem_id |-> PyInt(0),
     predicted_answer |-> PyStr(s42), true_answer |-> PyStr(s42_0),
     is_correct |-> PyBool(FALSE)],
    [model_name |-> PyStr(checkpoint_200), dataset |-> PyStr(gsm8k), problem_id |-> PyInt(0),
     predicted_answer |-> PyStr(s42), true_answer |-> PyFloat(42, 0)],
    [model_name |-> PyStr(checkpoint_200), dataset |-> PyStr(gsm8k), problem_id |-> PyInt(0),
     true_answer |-> PyInt(42)],
    [model_name |-> PyStr(base_model), dataset |-> PyStr(gsm8k), problem_id |-> PyInt(1),
     predicted_answer |-> None, true_answer |-> None, is_correct |-> None],
    [model_name |-> PyStr(base_model), dataset |-> PyStr(elyza), problem_id |-> PyInt(0),
     gpt4_score |-> PyInt(4)],
    [model_name |-> PyStr(checkpoint_200), dataset |-> PyStr(elyza), problem_id |-> PyInt(0)] }

\* the lists of at most n different elements of S
Lists(S, n) ==
  UNION {{l \in [1..k -> S] : \A i, j \in 1..k : l[i] = l[j] => i = j} : k \in 0..n}

Missing == [t |-> "missing"]
Malformed == [t |-> "malformed"]
Json(d) == [t |-> "json", v |-> d]

Files ==
  {Missing, Malformed, Json(PyDict([summary |-> None]))}
    \cup {Json(PyDict([detailed_results |-> rs])) : rs \in Lists(RecordPool, MaxRecords)}

----------------------------------------------------------------------------
(* main *)

\* load_data under st.cache_data: the cached document, else the file's, else the
\* exception open() or json.load() raises
load_data(cache, f) ==
  IF ~IsNone(cache) THEN cache
  ELSE IF f.t = "missing" THEN Raise("FileNotFoundError")
  ELSE IF f.t = "malformed" THEN Raise("JSONDecodeError")
  ELSE f.v

\* st.selectbox(options=...): one of the options, None when there is none
selectbox(options) ==
  IF options = <<>> THEN {None} ELSE {options[i] : i \in DOMAIN options}

\* line 417: all four widgets hold a usable value
Selected(m1, m2, ds, pid) == Truthy(m1) /\ Truthy(m2) /\ ~IsNone(ds) /\ ~IsNone(pid)

\* how a run ended, from what it showed: "none" (no run yet), "stopped" (load error
\* and st.stop()), "error" (same model, or a side not found) or "done"
Ended(o, r) ==
  IF r = {} THEN "none"
  ELSE IF r = {"load_data"} THEN "stopped"
  ELSE IF o # <<>> /\ o[1][1] \in {"error_same_model", "error_not_found"} THEN "error"
  ELSE "done"

\* the dict d with what the view left in the two records it was handed
Aliased(d, r1, rec1, r2, rec2) ==
  PyDict([d.d EXCEPT !["detailed_results"] = [@ EXCEPT ![r1.i] = rec1, ![r2.i] = rec2]])

Options == {"load_data", "get_model_names", "get_datasets", "get_problem_ids"}

\* a load error that is shown without st.stop(): the run goes on to line 369,
\* where get_model_names fails on the unbound data
RunLoadError_no_stop ==
  /\ IsRaise(load_data(data, file))
  /\ out' = <<<<load_data(data, file).e, 0>>, <<"UnboundLocalError", 0>>>>
  /\ ran' = {"load_data", "get_model_names"}
  /\ prev' = "done"
  /\ model_names' = <<>> /\ datasets' = <<>> /\ problem_ids' = <<>>
  /\ model1' = None /\ model2' = None /\ dataset' = None /\ problem_id' = None
  /\ record1' = None /\ record2' = None /\ is_correct1' = None /\ is_correct2' = None
  /\ UNCHANGED <<file, data, args, ret>>

\* lines 358-366: load_data raises; the error is shown and st.stop() ends the run
RunLoadError ==
  /\ IsRaise(load_data(data, file))
  /\ out' = <<<<load_data(data, file).e, 0>>>>
  /\ ran' = {"load_data"}
  /\ prev' = Ended(out, ran)
  /\ model_names' = <<>> /\ datasets' = <<>> /\ problem_ids' = <<>>
  /\ model1' = None /\ model2' = None /\ dataset' = None /\ problem_id' = None
  /\ record1' = None /\ record2' = None /\ is_correct1' = None /\ is_correct2' = None
  /\ UNCHANGED <<file, data, args, ret>>

\* lines 368-417: the lists are built and the widgets read, but some widget holds
\* no usable value and nothing more is done
RunNoSelection ==
  /\ ~IsRaise(load_data(data, file))
  /\ data' = load_data(data, file)
  /\ model_names' \in get_model_names(data')
  /\ datasets' \in get_datasets(data')
  /\ problem_ids' \in get_problem_ids(data')
  /\ model1' \in selectbox(model_names')
  /\ model2' \in selectbox(model_names')
  /\ dataset' \in selectbox(datasets')
  /\ problem_id' \in selectbox(problem_ids')
  /\ ~Selected(model1', model2', dataset', problem_id')
  /\ out' = <<>>
  /\ ran' = Options
  /\ prev' = Ended(out, ran)
  /\ record1' = None /\ record2' = None /\ is_correct1' = None /\ is_correct2' = None
  /\ UNCHANGED <<file, args, ret>>

\* a run without the check of line 419: the same model twice goes to filter_records,
\* whose elif leaves record2 unset
RunSameModel_unchecked ==
  /\ ~IsRaise(load_data(data, file))
  /\ data' = load_data(data, file)
  /\ model_names' \in get_model_names(data')
  /\ datasets' \in get_datasets(data')
  /\ problem_ids' \in get_problem_ids(data')
  /\ model1' \in selectbox(model_names')
  /\ model2' = model1'
  /\ dataset' \in selectbox(datasets')
  /\ problem_id' \in selectbox(problem_ids')
  /\ Selected(model1', model2', dataset', problem_id')
  /\ record1' = filter_loop(detailed_results(data'), 1, None, None, model1', model2',
                            dataset', problem_id')[1]
  /\ record2' = None
  /\ out' = <<<<"error_not_found", 0>>>>
              \o (IF IsNone(record1') THEN <<<<"warning", 1>>>> ELSE <<>>)
              \o <<<<"warning", 2>>>>
  /\ ran' = {"load_data", "get_model_names", "get_datasets", "get_problem_ids",
             "filter_records"}
  /\ prev' = Ended(out, ran)
  /\ is_correct1' = None /\ is_correct2' = None
  /\ UNCHANGED <<file, args, ret>>

\* lines 419-420: the same model in both widgets
RunSameModel ==
  /\ ~IsRaise(load_data(data, file))
  /\ data' = load_data(data, file)
  /\ model_names' \in get_model_names(data')
  /\ datasets' \in get_datasets(data')
  /\ problem_ids' \in get_problem_ids(data')
  /\ model1' \in selectbox(model_names')
  /\ model2' \in selectbox(model_names')
  /\ dataset' \in selectbox(datasets')
  /\ problem_id' \in selectbox(problem_ids')
  /\ Selected(model1', model2', dataset', problem_id')
  /\ model1' = model2'
  /\ out' = <<<<"error_same_model", 0>>>>
  /\ ran' = Options
  /\ prev' = Ended(out, ran)
  /\ record1' = None /\ record2' = None /\ is_correct1' = None /\ is_correct2' = None
  /\ UNCHANGED <<file, args, ret>>

\* lines 422-430: filter_records finds no record for a side
RunNotFound ==
  /\ ~IsRaise(load_data(data, file))
  /\ data' = load_data(data, file)
  /\ model_names' \in get_model_names(data')
  /\ datasets' \in get_datasets(data')
  /\ problem_ids' \in get_problem_ids(data')
  /\ model1' \in selectbox(model_names')
  /\ model2' \in selectbox(model_names')
  /\ dataset' \in selectbox(datasets')
  /\ problem_id' \in selectbox(problem_ids')
  /\ Selected(model1', model2', dataset', problem_id')
  /\ model1' # model2'
  /\ record1' = filter_records(data', model1', model2', dataset', problem_id')[1]
  /\ record2' = filter_records(data', model1', model2', dataset', problem_id')[2]
  /\ IsNone(record1') \/ IsNone(record2')
  /\ out' = <<<<"error_not_found", 0>>>>
              \o (IF IsNone(record1') THEN <<<<"warning", 1>>>> ELSE <<>>)
              \o (IF IsNone(record2') THEN <<<<"warning", 2>>>> ELSE <<>>)
  /\ ran' = Options \cup {"filter_records"}
  /\ prev' = Ended(out, ran)
  /\ is_correct1' = None /\ is_correct2' = None
  /\ UNCHANGED <<file, args, ret>>

\* lines 431-434: both records found, dataset elyza
RunElyzaView ==
  LET d == load_data(data, file) IN
  /\ ~IsRaise(d)
  /\ model_names' \in get_model_names(d)
  /\ datasets' \in get_datasets(d)
  /\ problem_ids' \in get_problem_ids(d)
  /\ model1' \in selectbox(model_names')
  /\ model2' \in selectbox(model_names')
  /\ dataset' \in selectbox(datasets')
  /\ problem_id' \in selectbox(problem_ids')
  /\ Selected(model1', model2', dataset', problem_id')
  /\ model1' # model2'
  /\ record1' = filter_records(d, model1', model2', dataset', problem_id')[1]
  /\ record2' = filter_records(d, model1', model2', dataset', problem_id')[2]
  /\ ~IsNone(record1') /\ ~IsNone(record2')
  /\ dataset' = PyStr(elyza)
  /\ LET view == render_elyza_view(Deref(d, record1'), Deref(d, record2')) IN
       /\ data' = Aliased(d, record1', view.record1, record2', view.record2)
       /\ out' = view.out
       /\ is_correct1' = view.is_correct1
       /\ is_correct2' = view.is_correct2
       /\ ran' = Options \cup {"filter_records"} \cup view.ran
  /\ prev' = Ended(out, ran)
  /\ UNCHANGED <<file, args, ret>>

\* lines 431-436: both records found, any other dataset
RunNormalView ==
  LET d == load_data(data, file) IN
  /\ ~IsRaise(d)
  /\ model_names' \in get_model_names(d)
  /\ datasets' \in get_datasets(d)
  /\ problem_ids' \in get_problem_ids(d)
  /\ model1' \in selectbox(model_names')
  /\ model2' \in selectbox(model_names')
  /\ dataset' \in selectbox(datasets')
  /\ problem_id' \in selectbox(problem_ids')
  /\ Selected(model1', model2', dataset', problem_id')
  /\ model1' # model2'
  /\ record1' = filter_records(d, model1', model2', dataset', problem_id')[1]
  /\ record2' = filter_records(d, model1', model2', dataset', problem_id')[2]
  /\ ~IsNone(record1') /\ ~IsNone(record2')
  /\ dataset' # PyStr(elyza)
  /\ LET view == render_normal_view(Deref(d, record1'), Deref(d, record2')) IN
       /\ data' = Aliased(d, record1', view.record1, record2', view.record2)
       /\ out' = view.out
       /\ is_correct1' = view.is_correct1
       /\ is_correct2' = view.is_correct2
       /\ ran' = Options \cup {"filter_records"} \cup view.ran
  /\ prev' = Ended(out, ran)
  /\ UNCHANGED <<file, args, ret>>

----------------------------------------------------------------------------
(* get_model_names and calculate_is_correct called on their own *)

checkpoint_50 == checkpoint_ \o <<"5", "0">>
checkpoint_1000 == checkpoint_ \o <<"1", "0", "0", "0">>
checkpoint_final == checkpoint_ \o <<"f", "i", "n", "a", "l">>
checkpoint_200_v2 == checkpoint_200 \o <<"_", "v", "2">>
alpha == <<"a", "l", "p", "h", "a">>

\* the model names records may carry
ModelNames ==
  {base_model, checkpoint_50, checkpoint_200, checkpoint_1000, checkpoint_final,
   checkpoint_, checkpoint_200_v2, alpha}

\* a document whose records carry the model names ns, in that order
NamedRecords(ns) ==
  PyDict([detailed_results |->
            [i \in DOMAIN ns |->
               [model_name |-> PyStr(ns[i]), dataset |-> PyStr(gsm8k),
                problem_id |-> PyInt(i)]]])

PyList(l) == [t |-> "list", l |-> l]

CallGetModelNames ==
  /\ args.t = "get_model_names"
  /\ IsNone(ret)
  /\ ret' \in {PyList(l) : l \in get_model_names(args.data)}
  /\ UNCHANGED <<sessionVars, args>>

foo == <<"f", "o", "o">>
bar == <<"b", "a", "r">>

\* the answers records may carry: numeric strings, numbers, free text and null
AnswerValues ==
  { PyStr(s42), PyStr(s42_0), PyStr(s43), PyStr(<<" ">> \o s42 \o <<" ">>),
    PyStr(<<"-", "4", "2">>), PyStr(<<".", "5">>), PyStr(<<"0", ".", "5", "0">>),
    PyInt(42), PyFloat(42, 0), PyFloat(5, 1),
    PyStr(foo), PyStr(<<" ">> \o foo \o <<" ">>), PyStr(bar), PyStr(<<"F", "o", "o">>),
    PyStr(foo \o <<".">>), PyStr(<<"4", "2", " ", "k", "g">>), PyStr(<<>>),
    PyStr(<<"N", "o", "n", "e">>), None }

CallCalculateIsCorrect ==
  /\ args.t = "calculate_is_correct"
  /\ IsNone(ret)
  /\ ret' = calculate_is_correct(args.predicted_answer, args.true_answer)
  /\ UNCHANGED <<sessionVars, args>>

\* no page: the session variables as before the first run, the file missing
NoSession ==
  /\ file = Missing
  /\ data = None
  /\ model_names = <<>> /\ datasets = <<>> /\ problem_ids = <<>>
  /\ model1 = None /\ model2 = None /\ dataset = None /\ problem_id = None
  /\ record1 = None /\ record2 = None /\ is_correct1 = None /\ is_correct2 = None
  /\ out = <<>>
  /\ ran = {}
  /\ prev = "none"

InitNames ==
  /\ NoSession
  /\ args \in {[t |-> "get_model_names", data |-> NamedRecords(ns)] :
                 ns \in UNION {[1..k -> ModelNames] : k \in 0..MaxNames}}
  /\ ret = None

SpecNames == InitNames /\ [][CallGetModelNames]_vars

InitCalc ==
  /\ NoSession
  /\ args \in {[t |-> "calculate_is_correct", predicted_answer |-> p, true_answer |-> a] :
                 p \in AnswerValues, a \in AnswerValues}
  /\ ret = None

SpecCalc == InitCalc /\ [][CallCalculateIsCorrect]_vars

----------------------------------------------------------------------------
(* The page *)

Init ==
  /\ file \in Files
  /\ data = None
  /\ model_names = <<>> /\ datasets = <<>> /\ problem_ids = <<>>
  /\ model1 = None /\ model2 = None /\ dataset = None /\ problem_id = None
  /\ record1 = None /\ record2 = None /\ is_correct1 = None /\ is_correct2 = None
  /\ out = <<>>
  /\ ran = {}
  /\ prev = "none"
  /\ args = None
  /\ ret = None

\* one run of main per page load or widget change
Next ==
  \/ RunLoadError
  \/ RunNoSelection
  \/ RunSameModel
  \/ RunNotFound
  \/ RunElyzaView
  \/ RunNormalView

Spec == Init /\ [][Next]_vars

----------------------------------------------------------------------------
(* Properties *)

Range(l) == {l[i] : i \in DOMAIN l}
Max(S) == CHOOSE x \in S : \A y \in S : y <= x
Min(S) == CHOOSE x \in S : \A y \in S : x <= y

FilterRan == "filter_records" \in ran
NormalRan == "render_normal_view" \in ran

\* the positions of the loaded records that carry model m and the selected dataset
\* and problem id
Matches(m) ==
  {i \in DOMAIN detailed_results(data) :
     /\ detailed_results(data)[i]["model_name"] = m
     /\ detailed_results(data)[i]["dataset"] = dataset
     /\ detailed_results(data)[i]["problem_id"] = problem_id}

C4_PresentIffKeyExists ==
  FilterRan =>
    /\ ~IsNone(record1) <=> Matches(model1) # {}
    /\ ~IsNone(record2) <=> Matches(model2) # {}
    /\ ~IsNone(record1) => record1.i \in Matches(model1)
    /\ ~IsNone(record2) => record2.i \in Matches(model2)
    /\ <<"warning", 1>> \in Range(out) <=> IsNone(record1)
    /\ <<"warning", 2>> \in Range(out) <=> IsNone(record2)
    /\ (IsNone(record1) \/ IsNone(record2)) =>
         /\ out[1] = <<"error_not_found", 0>>
         /\ <<"normal_view", 0>> \notin Range(out)
         /\ <<"elyza_view", 0>> \notin Range(out)
         /\ ran \cap {"render_normal_view", "render_elyza_view"} = {}

\* exactly one record for side 1 and none for side 2: (record, absent), one warning
C4_OnlySideOneFound ==
  /\ FilterRan
  /\ Cardinality(Matches(model1)) = 1
  /\ Matches(model2) = {}
  /\ ~IsNone(record1)
  /\ IsNone(record2)
  /\ out = <<<<"error_not_found", 0>>, <<"warning", 2>>>>

\* the is_correct stored in the record a reference points to (None: absent or null)
Stored(r) == Get(Deref(data, r), "is_correct", None)

\* C6: in the general view a stored is_correct is what is displayed, whatever the
\* answers would give, and calculate_is_correct is called for a side only when that
\* side's record has no is_correct.
C6_StoredVerdictTrusted ==
  NormalRan =>
    /\ ~IsNone(Stored(record1)) =>
         /\ is_correct1 = Stored(record1)
         /\ (IF Stored(record1).b THEN <<"correct", 1>> ELSE <<"incorrect", 1>>)
              \in Range(out)
         /\ (IF Stored(record1).b THEN <<"incorrect", 1>> ELSE <<"correct", 1>>)
              \notin Range(out)
    /\ (~IsNone(Stored(record2)) /\ ~IsNone(is_correct2)) =>
         /\ is_correct2 = Stored(record2)
         /\ (IF Stored(record2).b THEN <<"correct", 2>> ELSE <<"incorrect", 2>>)
              \in Range(out)
         /\ (IF Stored(record2).b THEN <<"incorrect", 2>> ELSE <<"correct", 2>>)
              \notin Range(out)
    /\ "calculate_is_correct_1" \in ran => IsNone(Stored(record1))
    /\ "calculate_is_correct_2" \in ran => IsNone(Stored(record2))

\* a stored false is displayed for a record whose answers are numerically equal
C6_StoredFalseDisplayed ==
  /\ NormalRan
  /\ Stored(record1) = PyBool(FALSE)
  /\ Deref(data, record1)["predicted_answer"] = PyStr(s42)
  /\ Deref(data, record1)["true_answer"] = PyStr(s42_0)
  /\ is_correct1 = PyBool(FALSE)
  /\ <<"incorrect", 1>> \in Range(out)
  /\ "calculate_is_correct_1" \notin ran

\* two records of different models for one dataset and problem id are loaded
Comparable ==
  \E i, j \in DOMAIN detailed_results(data) :
    /\ detailed_results(data)[i]["model_name"] # detailed_results(data)[j]["model_name"]
    /\ detailed_results(data)[i]["dataset"] = detailed_results(data)[j]["dataset"]
    /\ detailed_results(data)[i]["problem_id"] = detailed_results(data)[j]["problem_id"]

\* the widgets of the next run offer a selection that passes every guard of main
\* up to the rendering of a view
CanCompare ==
  \E names \in get_model_names(data), dss \in get_datasets(data),
     pids \in get_problem_ids(data) :
    \E m1 \in selectbox(names), m2 \in selectbox(names), ds \in selectbox(dss),
       pid \in selectbox(pids) :
      /\ Selected(m1, m2, ds, pid)
      /\ m1 # m2
      /\ ~IsNone(filter_records(data, m1, m2, ds, pid)[1])
      /\ ~IsNone(filter_records(data, m1, m2, ds, pid)[2])

\* C7: a load error is the only thing its run shows, and the run builds no option
\* list, matches nothing and renders nothing; after a same-model or not-found error
\* the loaded collection is still there, nothing was rendered, and whenever the
\* collection holds a comparable pair the next run can render a comparison.
C7_ErrorPropagation ==
  /\ (file.t \in {"missing", "malformed"} /\ ran # {}) =>
       /\ out = <<<<(IF file.t = "missing" THEN "FileNotFoundError" ELSE "JSONDecodeError"),
                    0>>>>
       /\ ran = {"load_data"}
       /\ IsNone(data)
       /\ model_names = <<>> /\ datasets = <<>> /\ problem_ids = <<>>
       /\ IsNone(record1) /\ IsNone(record2)
  /\ (out # <<>> /\ out[1][1] \in {"error_same_model", "error_not_found"}) =>
       /\ data = file.v
       /\ "render_normal_view" \notin ran /\ "render_elyza_view" \notin ran
       /\ Comparable => CanCompare

\* a comparison rendered by the run after one that ended in an error
C7_ComparisonAfterError ==
  /\ prev = "error"
  /\ out # <<>>
  /\ out[1][1] \in {"normal_view", "elyza_view"}
  /\ ~IsNone(record1) /\ ~IsNone(record2)

\* C8 as claimed: a record without is_correct never makes the general view fail; a
\* boolean verdict is derived for it even when predicted_answer or true_answer is
\* absent.
C8_MissingVerdictNeverFails ==
  NormalRan =>
    /\ \A k \in DOMAIN out : out[k][1] # "KeyError"
    /\ IsNone(Stored(record1)) => is_correct1.t = "bool"
    /\ IsNone(Stored(record2)) => is_correct2.t = "bool"

\* C9: no run changes the loaded collection (it stays the document of the file,
\* record for record, with no derived is_correct stored), and two runs in a row
\* with the same selection get the same two records from filter_records.
C9_ReadOnlyIdempotent ==
  [][/\ ~IsNone(data) => data' = data
     /\ ~IsNone(data') => data' = file.v
     /\ ("filter_records" \in ran /\ "filter_records" \in ran'
         /\ model1' = model1 /\ model2' = model2
         /\ dataset' = dataset /\ problem_id' = problem_id)
          => (record1' = record1 /\ record2' = record2)]_vars

\* a verdict was derived for side 1 and its record still has no is_correct
C9_DerivedNotStored ==
  /\ "calculate_is_correct_1" \in ran
  /\ is_correct1.t = "bool"
  /\ ~HasKey(Deref(data, record1), "is_correct")
  /\ data = file.v

\* the numbers the answers in use stand for, in tenths
NumberOf ==
  { <<PyStr(s42), 420>>, <<PyStr(s42_0), 420>>, <<PyStr(s43), 430>>,
    <<PyStr(<<" ">> \o s42 \o <<" ">>), 420>>, <<PyStr(<<"-", "4", "2">>), -420>>,
    <<PyStr(<<".", "5">>), 5>>, <<PyStr(<<"0", ".", "5", "0">>), 5>>,
    <<PyInt(42), 420>>, <<PyFloat(42, 0), 420>>, <<PyFloat(5, 1), 5>> }

\* their string forms without leading and trailing whitespace
TrimmedTextOf ==
  { <<PyStr(s42), s42>>, <<PyStr(s42_0), s42_0>>, <<PyStr(s43), s43>>,
    <<PyStr(<<" ">> \o s42 \o <<" ">>), s42>>,
    <<PyStr(<<"-", "4", "2">>), <<"-", "4", "2">>>>,
    <<PyStr(<<".", "5">>), <<".", "5">>>>,
    <<PyStr(<<"0", ".", "5", "0">>), <<"0", ".", "5", "0">>>>,
    <<PyInt(42), s42>>, <<PyFloat(42, 0), s42_0>>, <<PyFloat(5, 1), <<"0", ".", "5">>>>,
    <<PyStr(foo), foo>>, <<PyStr(<<" ">> \o foo \o <<" ">>), foo>>, <<PyStr(bar), bar>>,
    <<PyStr(<<"F", "o", "o">>), <<"F", "o", "o">>>>,
    <<PyStr(foo \o <<".">>), <<"f", "o", "o", ".">>>>,
    <<PyStr(<<"4", "2", " ", "k", "g">>), <<"4", "2", " ", "k", "g">>>>,
    <<PyStr(<<>>), <<>>>>,
    <<PyStr(<<"N", "o", "n", "e">>), <<"N", "o", "n", "e">>>>,
    <<None, <<"N", "o", "n", "e">>>> }

IsNumber(x) == \E e \in NumberOf : e[1] = x
Number(x) == (CHOOSE e \in NumberOf : e[1] = x)[2]
TrimmedText(x) == (CHOOSE e \in TrimmedTextOf : e[1] = x)[2]

\* C5: the verdict is the equality of the two numbers when both answers are
\* numbers or numeric strings ("42" and "42.0" agree, "42" and "43" do not), and
\* otherwise the equality of their string forms without surrounding whitespace
\* (" foo " and "foo" agree; case and punctuation count).
C5_NumericThenTrimmedText ==
  (args.t = "calculate_is_correct" /\ ~IsNone(ret)) =>
    ret = PyBool(IF IsNumber(args.predicted_answer) /\ IsNumber(args.true_answer)
                 THEN Number(args.predicted_answer) = Number(args.true_answer)
                 ELSE TrimmedText(args.predicted_answer) = TrimmedText(args.true_answer))

\* "42" against "42.0" was found correct
C5_FortyTwoAgrees ==
  /\ args.t = "calculate_is_correct"
  /\ args.predicted_answer = PyStr(s42)
  /\ args.true_answer = PyStr(s42_0)
  /\ ret = PyBool(TRUE)

\* the names in use that are checkpoint_<n>, with n, as C2 and C10 read them
CheckpointNumber == {<<checkpoint_50, 50>>, <<checkpoint_200, 200>>, <<checkpoint_1000, 1000>>}

\* the other names in use, in lexicographic (code point) order
Lexicographic == <<alpha, checkpoint_, checkpoint_200_v2, checkpoint_final>>

LexIndex(name) == CHOOSE i \in DOMAIN Lexicographic : Lexicographic[i] = name

\* the place C2 and C10 as claimed give a name: (tier, number or lexicographic index)
ClaimedRank(name) ==
  IF name = base_model THEN <<0, 0>>
  ELSE IF \E e \in CheckpointNumber : e[1] = name
  THEN <<1, (CHOOSE e \in CheckpointNumber : e[1] = name)[2]>>
  ELSE <<2, LexIndex(name)>>

\* the place the amended claims give it: checkpoint_200_v2 is a checkpoint, number 200
AmendedRank(name) == IF name = checkpoint_200_v2 THEN <<1, 200>> ELSE ClaimedRank(name)

RankLess(a, b) == a[1] < b[1] \/ (a[1] = b[1] /\ a[2] < b[2])

NamesReturned == args.t = "get_model_names" /\ ~IsNone(ret)

\* the model names of the records get_model_names was given
NamesGiven == {detailed_results(args.data)[i]["model_name"].s :
                 i \in DOMAIN detailed_results(args.data)}

\* the list holds each distinct name of the records exactly once
EachNameOnce ==
  /\ {ret.l[i].s : i \in DOMAIN ret.l} = NamesGiven
  /\ Len(ret.l) = Cardinality(NamesGiven)

\* C2 as claimed: each distinct name once; base_model first, then the checkpoint_<n>
\* names in strictly ascending n, then every other name, lexicographically, after
\* all checkpoints.
C2_CheckpointsThenOthers ==
  NamesReturned =>
    /\ EachNameOnce
    /\ \A i, j \in DOMAIN ret.l :
         i < j => RankLess(ClaimedRank(ret.l[i].s), ClaimedRank(ret.l[j].s))

\* C2 as amended: each distinct name once; base_model first, then every name whose
\* text between its first and second underscore is an integer n (checkpoint_200_v2
\* as well as checkpoint_200) in ascending n, names with the same n in either order,
\* then every other name lexicographically.
C2_NumberedThenOthers ==
  NamesReturned =>
    /\ EachNameOnce
    /\ \A i, j \in DOMAIN ret.l :
         i < j => ~RankLess(AmendedRank(ret.l[j].s), AmendedRank(ret.l[i].s))

\* base_model and three checkpoints came out in training order
C2_TrainingOrder ==
  /\ NamesReturned
  /\ ret.l = <<PyStr(base_model), PyStr(checkpoint_50), PyStr(checkpoint_200),
               PyStr(checkpoint_1000)>>

\* the list places every name of Late after every name of Early
After(Late, Early) ==
  \A i, j \in DOMAIN ret.l : (ret.l[i].s \in Late /\ ret.l[j].s \in Early) => j < i

\* the names of Names appear in the list in lexicographic order
InLexicographicOrder(Names) ==
  \A i, j \in DOMAIN ret.l :
    (ret.l[i].s \in Names /\ ret.l[j].s \in Names /\ i < j)
      => LexIndex(ret.l[i].s) < LexIndex(ret.l[j].s)

\* C10 as claimed: checkpoint_final, checkpoint_ and checkpoint_200_v2 (the rest after
\* the prefix is no integer) come after every checkpoint_<integer> name, in
\* lexicographic order among the other names, and the list is built without error.
C10_NonIntegerRemainderLast ==
  NamesReturned =>
    /\ ret.t = "list"
    /\ After({checkpoint_final, checkpoint_, checkpoint_200_v2},
             {base_model, checkpoint_50, checkpoint_200, checkpoint_1000})
    /\ InLexicographicOrder({alpha, checkpoint_final, checkpoint_, checkpoint_200_v2})

\* C10 as amended: checkpoint_final and checkpoint_ (no integer between the first and
\* the second underscore) come after every checkpoint with a number, in lexicographic
\* order among the other names, and the list is built without error;
\* checkpoint_200_v2 is placed as checkpoint number 200.
C10_NonIntegerFieldLast ==
  NamesReturned =>
    /\ ret.t = "list"
    /\ After({checkpoint_final, checkpoint_},
             {base_model, checkpoint_50, checkpoint_200, checkpoint_1000, checkpoint_200_v2})
    /\ InLexicographicOrder({alpha, checkpoint_final, checkpoint_})
    /\ After({checkpoint_200_v2}, {base_model, checkpoint_50})
    /\ After({checkpoint_1000}, {checkpoint_200_v2})

\* checkpoint_200_v2 came out among the checkpoints and checkpoint_final after them
C10_FallbackAfterCheckpoints ==
  /\ NamesReturned
  /\ ret.l = <<PyStr(checkpoint_200_v2), PyStr(checkpoint_1000), PyStr(alpha),
               PyStr(checkpoint_final)>>

====
